---- MODULE Spec2Model ----
(***************************************************************************)
(* Model of the crates.io compute-static edge service                      *)
(* (terragrunt/modules/crates-io/compute-static/src/main.rs).              *)
(*                                                                         *)
(* One behaviour is one invocation of main(request).  Init draws the       *)
(* inbound request; every function main calls is one action, and a call    *)
(* to an origin is two actions (the send, and the return of its outcome).  *)
(*                                                                         *)
(* Strings are sequences of characters.  The literal "db-dump.tar.gz" is   *)
(* one element of such a sequence; every other element is a character      *)
(* that differs from the literal's last character, so a string ends with   *)
(* the literal exactly when its last element is that element.              *)
(*                                                                         *)
(* Option<T> is a sequence of length at most one: None is <<>> and Some(v) *)
(* is <<v>>.  A builder field is an Option of the field's value, so a      *)
(* field set to None is << <<>> >> and a field never set is <<>>.          *)
(***************************************************************************)
EXTENDS Integers, Sequences, FiniteSets

VARIABLES
    pc,             \* position of main
    inbound,        \* the request as received (never changes)
    request,        \* the request as the pipeline mutates it
    logger,         \* TRUE once init_logging has installed the logger
    log,            \* the LogLineV1Builder
    response,       \* Option of the Result<Response, Error> main holds
    primaryResult,  \* Option of the outcome of the send to the primary host
    fallbackResult, \* Option of the outcome of the send to the fallback host
    sent,           \* the requests sent to origins, in order
    requestLog,     \* lines written to the request-logs endpoint
    serviceLog      \* lines written to the service-logs endpoint

vars == <<pc, inbound, request, logger, log, response, primaryResult,
          fallbackResult, sent, requestLog, serviceLog>>

----------------------------------------------------------------------------
(* Bounds *)

MaxPathLen == 2

MaxQueryLen == 1

----------------------------------------------------------------------------
(* Values *)

None == <<>>

Some(v) == <<v>>

BoundedSeq(S, n) == UNION {[1..k -> S] : k \in 0..n}

DbDump == "db-dump.tar.gz"

PathChars == {"c", "+", "%", DbDump}

QueryChars == {"+", DbDump}

Methods == {"GET", "HEAD", "PURGE", "POST"}

UrlBase == <<"https://static.crates.io">>

ClientIp == "198.51.100.7"

Now == "2023-01-01T00:00:00Z"

Config ==
    [ static_ttl            |-> "static-ttl",
      primary_host          |-> "primary-host",
      fallback_host         |-> "fallback-host",
      cloudfront_url        |-> "cloudfront.example",
      request_logs_endpoint |-> "request-logs",
      service_logs_endpoint |-> "service-logs" ]

Requests ==
    { [ method |-> m, path |-> <<"/">> \o p, query |-> q,
        origin_header |-> o, ttl |-> None, ip |-> Some(ClientIp) ] :
        m \in Methods,
        p \in BoundedSeq(PathChars, MaxPathLen),
        q \in {None} \cup {Some(s) : s \in BoundedSeq(QueryChars, MaxQueryLen)},
        o \in {None, Some("https://example.com")} }

\* A Response.  backend names where it came from; a response built by the
\* service itself has backend "local".
Response(backend, status, len, headers, body) ==
    [ backend |-> backend, status |-> status, len |-> len,
      headers |-> headers, body |-> body ]

Ok(resp) ==
    [ ok |-> TRUE, backend |-> resp.backend, status |-> resp.status,
      len |-> resp.len, headers |-> resp.headers, body |-> resp.body ]

\* An Err carries no response; only ok and backend are meaningful.
Err(backend) ==
    [ ok |-> FALSE, backend |-> backend, status |-> 0, len |-> None,
      headers |-> {}, body |-> "" ]

OriginStatuses == {200, 499, 500, 503}

OriginLengths == {None, Some(120)}

OriginHeaders == {{}, {<<"Access-Control-Allow-Origin", "https://example.com">>}}

\* Everything a send to the backend can produce: a transport error or a
\* response of any status.
SendOutcomes(backend) ==
    {Err(backend)} \cup
    { Ok(Response(backend, s, l, h, "object")) :
        s \in OriginStatuses, l \in OriginLengths, h \in OriginHeaders }

----------------------------------------------------------------------------
(* Request and Response accessors *)

\* Url::path / Request::get_url_str
get_url_str(req) ==
    UrlBase \o req.path \o
        (IF req.query = None THEN <<>> ELSE <<"?">> \o req.query[1])

ends_with(s, lit) == Len(s) > 0 /\ s[Len(s)] = lit

get_header(headers, name) ==
    IF \E p \in headers : p[1] = name
    THEN Some((CHOOSE p \in headers : p[1] = name)[2])
    ELSE None

set_header(headers, name, value) ==
    {p \in headers : p[1] # name} \cup {<<name, value>>}

\* the clone loses the cache override
clone_without_body_no_ttl(req) ==
    [ method |-> req.method, path |-> req.path, query |-> req.query,
      origin_header |-> req.origin_header, ttl |-> None ]

clone_without_body(req) ==
    [ method |-> req.method, path |-> req.path, query |-> req.query,
      origin_header |-> req.origin_header, ttl |-> req.ttl ]

\* LogLineV1Builder::default()
LogLineV1Builder_default ==
    [ date_time |-> None, url |-> None, ip |-> None, method |-> None,
      bytes |-> None, status |-> None ]

----------------------------------------------------------------------------
Init ==
    /\ pc = "main"
    /\ inbound \in Requests
    /\ request = inbound
    /\ logger = FALSE
    /\ log = LogLineV1Builder_default
    /\ response = None
    /\ primaryResult = None
    /\ fallbackResult = None
    /\ sent = <<>>
    /\ requestLog = <<>>
    /\ serviceLog = <<>>

----------------------------------------------------------------------------
(* Logging *)

\* warn! without a target: a line on the default (service-logs) endpoint.
\* Before init_logging no logger is installed and the macro drops the line.
warn(msg) == IF logger THEN Append(serviceLog, msg) ELSE serviceLog

\* LogLineV1Builder::build.  The fields of the request phase and the status
\* must have been set; a byte count that was never set is null in the
\* record.
LogLineV1Builder_build(b) ==
    IF \/ b.date_time = None \/ b.url = None \/ b.ip = None
       \/ b.method = None \/ b.status = None
    THEN [ ok |-> FALSE, line |-> LogLineV1Builder_default ]
    ELSE [ ok |-> TRUE,
           line |-> [ date_time |-> b.date_time[1], url |-> b.url[1],
                      ip |-> b.ip[1], method |-> b.method[1],
                      bytes |-> IF b.bytes = None THEN None ELSE b.bytes[1],
                      status |-> b.status[1] ] ]

----------------------------------------------------------------------------
(* The functions of main.rs *)

\* the purge check lost: a purge request runs the whole pipeline
is_purge_never(req) == FALSE

is_purge(req) == req.method = "PURGE"

has_origin_header(req) == req.origin_header # None

\* Response::get_content_length of a response built by the service: the
\* length of its body, or nothing when the runtime does not know it yet.
LocalLengths(n) == {None, Some(n)}

\* the 405 the doc comment declines to return
limit_http_methods_405(req, len) ==
    IF req.method # "GET" /\ req.method # "HEAD"
    THEN Some(Response("local", 405, len, {}, "Method not allowed"))
    ELSE None

limit_http_methods(req, len) ==
    IF req.method # "GET" /\ req.method # "HEAD"
    THEN Some(Response("local", 401, len, {}, "Method not allowed"))
    ELSE None

\* Url::set_path percent-encodes the characters a path cannot hold.
set_path_char(c) ==
    IF c = "?" THEN <<"%", "3", "F">> ELSE IF c = "#" THEN <<"%", "2", "3">> ELSE <<c>>

RECURSIVE set_path(_)
set_path(p) == IF p = <<>> THEN <<>> ELSE set_path_char(Head(p)) \o set_path(Tail(p))

\* str::contains('+')
contains_plus(p) == \E i \in 1..Len(p) : p[i] = "+"

\* str::replacen('+', "%2B", 1): only the first + is replaced
RECURSIVE replace_plus_first(_)
replace_plus_first(p) ==
    IF p = <<>> THEN <<>>
    ELSE IF Head(p) = "+" THEN <<"%", "2", "B">> \o Tail(p)
    ELSE <<Head(p)>> \o replace_plus_first(Tail(p))

\* str::replace('+', "%2B")
RECURSIVE replace_plus(_)
replace_plus(p) ==
    IF p = <<>> THEN <<>>
    ELSE (IF Head(p) = "+" THEN <<"%", "2", "B">> ELSE <<Head(p)>>)
         \o replace_plus(Tail(p))

rewrite_path(p) == IF contains_plus(p) THEN set_path(replace_plus(p)) ELSE p

\* the URL logged after the path was rewritten
collect_request_builder_rewritten(req) ==
    [ LogLineV1Builder_default EXCEPT
        !.date_time = Some(Now),
        !.url = Some(get_url_str([req EXCEPT !.path = rewrite_path(req.path)])),
        !.ip = Some(req.ip),
        !.method = Some(Some(req.method)) ]

collect_request_builder(req) ==
    [ LogLineV1Builder_default EXCEPT
        !.date_time = Some(Now),
        !.url = Some(get_url_str(req)),
        !.ip = Some(req.ip),
        !.method = Some(Some(req.method)) ]

is_db_dump(req) == ends_with(get_url_str(req), DbDump)

redirect_response(len) ==
    Ok(Response("local", 307, len,
                {<<"Location", <<"https://", Config.cloudfront_url, "/", DbDump>> >>},
                ""))

\* a transport error of the primary also goes to the fallback
after_primary_retry_on_error(o) ==
    IF ~o.ok THEN "fallback"
    ELSE IF o.status >= 500 THEN "fallback"
    ELSE "return"

\* status_code > 500
after_primary_above_500(o) ==
    IF ~o.ok THEN "propagate"
    ELSE IF o.status > 500 THEN "fallback"
    ELSE "return"

\* status_code >= 400
after_primary_from_400(o) ==
    IF ~o.ok THEN "propagate"
    ELSE IF o.status >= 400 THEN "fallback"
    ELSE "return"

\* What send_request_to_s3 does with the outcome of the send to the primary
\* host: "propagate" the error (the ? operator), go to the "fallback", or
\* "return" the response.
after_primary(o) ==
    IF ~o.ok THEN "propagate"
    ELSE IF o.status >= 500 THEN "fallback"
    ELSE "return"

\* the Access-Control-Max-Age header forgotten
cors_headers_no_max_age(h) ==
    set_header(
        set_header(h, "Access-Control-Allow-Origin", "*"),
        "Access-Control-Allow-Methods", "GET")

cors_headers(h) ==
    set_header(
        set_header(
            set_header(h, "Access-Control-Allow-Origin", "*"),
            "Access-Control-Allow-Methods", "GET"),
        "Access-Control-Max-Age", "3000")

\* the decorated response also turned into a 200
add_cors_headers_to_200(r) ==
    IF r.ok THEN [r EXCEPT !.headers = cors_headers(r.headers), !.status = 200] ELSE r

add_cors_headers_to(r) ==
    IF r.ok THEN [r EXCEPT !.headers = cors_headers(r.headers)] ELSE r

\* the byte count not recorded
collect_response_builder_no_bytes(b, r) ==
    IF r.ok
    THEN [b EXCEPT !.status = Some(Some(r.status))]
    ELSE [b EXCEPT !.status = Some(Some(500))]

\* the status of an origin's response logged as 200
collect_response_builder_status_200(b, r) ==
    IF r.ok
    THEN [b EXCEPT !.bytes = Some(r.len),
                   !.status = Some(Some(IF r.backend = "local" THEN r.status ELSE 200))]
    ELSE [b EXCEPT !.status = Some(Some(500))]

\* nothing recorded after a transport failure
collect_response_builder_nothing_on_err(b, r) ==
    IF r.ok
    THEN [b EXCEPT !.bytes = Some(r.len), !.status = Some(Some(r.status))]
    ELSE b

collect_response_builder(b, r) ==
    IF r.ok
    THEN [b EXCEPT !.bytes = Some(r.len), !.status = Some(Some(r.status))]
    ELSE [b EXCEPT !.status = Some(Some(500))]

\* the warning written whatever build returned
log_output_both(b) ==
    LET built == LogLineV1Builder_build(b) IN
    << IF built.ok THEN <<[version |-> "V1", line |-> built.line]>> ELSE <<>>,
       <<[kind |-> "serialize", host |-> "", status |-> 0]>> >>

\* The lines build_and_send_log writes: <<request-log lines, service-log lines>>.
log_output(b) ==
    LET built == LogLineV1Builder_build(b) IN
    IF built.ok
    THEN << <<[version |-> "V1", line |-> built.line]>>, <<>> >>
    ELSE << <<>>, <<[kind |-> "serialize", host |-> "", status |-> 0]>> >>

----------------------------------------------------------------------------
(* Actions *)

\* handle_request called before init_logging and collect_request
main_purge_check_skips_request_phase ==
    /\ pc = "main"
    /\ pc' = IF is_purge(request) THEN "send_primary" ELSE "limit_http_methods"
    /\ UNCHANGED <<inbound, request, logger, log, response, primaryResult,
                   fallbackResult, sent, requestLog, serviceLog>>

\* main, lines 16-22: purge requests go straight to send_request_to_s3.
main_purge_check ==
    /\ pc = "main"
    /\ pc' = IF is_purge(request) THEN "send_primary" ELSE "init_logging"
    /\ UNCHANGED <<inbound, request, logger, log, response, primaryResult,
                   fallbackResult, sent, requestLog, serviceLog>>

init_logging ==
    /\ pc = "init_logging"
    /\ logger' = TRUE
    /\ pc' = "collect_request"
    /\ UNCHANGED <<inbound, request, log, response, primaryResult,
                   fallbackResult, sent, requestLog, serviceLog>>

collect_request ==
    /\ pc = "collect_request"
    /\ log' = collect_request_builder(request)
    /\ pc' = "limit_http_methods"
    /\ UNCHANGED <<inbound, request, logger, response, primaryResult,
                   fallbackResult, sent, requestLog, serviceLog>>

\* the db-dump test made before the method filter
handle_request_limit_after_redirect ==
    /\ pc = "limit_http_methods"
    /\ IF is_db_dump(request)
       THEN /\ \E len \in LocalLengths(0) : response' = Some(redirect_response(len))
            /\ pc' = "add_cors_headers"
       ELSE \E len \in LocalLengths(18) :
            LET r == limit_http_methods(request, len) IN
            IF r # None
            THEN /\ response' = Some(Ok(r[1]))
                 /\ pc' = "add_cors_headers"
            ELSE /\ response' = response
                 /\ pc' = "set_ttl"
    /\ UNCHANGED <<inbound, request, logger, log, primaryResult,
                   fallbackResult, sent, requestLog, serviceLog>>

\* handle_request, lines 71-73
handle_request_limit ==
    /\ pc = "limit_http_methods"
    /\ \E len \in LocalLengths(18) :
        LET r == limit_http_methods(request, len) IN
        IF r # None
        THEN /\ response' = Some(Ok(r[1]))
             /\ pc' = "add_cors_headers"
        ELSE /\ response' = response
             /\ pc' = "set_ttl"
    /\ UNCHANGED <<inbound, request, logger, log, primaryResult,
                   fallbackResult, sent, requestLog, serviceLog>>

set_ttl ==
    /\ pc = "set_ttl"
    /\ request' = [request EXCEPT !.ttl = Some(Config.static_ttl)]
    /\ pc' = "rewrite_urls"
    /\ UNCHANGED <<inbound, logger, log, response, primaryResult,
                   fallbackResult, sent, requestLog, serviceLog>>

rewrite_urls_with_plus_character ==
    /\ pc = "rewrite_urls"
    /\ request' = [request EXCEPT !.path = rewrite_path(request.path)]
    /\ pc' = "route"
    /\ UNCHANGED <<inbound, logger, log, response, primaryResult,
                   fallbackResult, sent, requestLog, serviceLog>>

\* handle_request, lines 79-80
redirect_db_dump_to_cloudfront ==
    /\ pc = "route"
    /\ is_db_dump(request)
    /\ \E len \in LocalLengths(0) : response' = Some(redirect_response(len))
    /\ pc' = "add_cors_headers"
    /\ UNCHANGED <<inbound, request, logger, log, primaryResult,
                   fallbackResult, sent, requestLog, serviceLog>>

\* handle_request, lines 81-83
handle_request_forward ==
    /\ pc = "route"
    /\ ~is_db_dump(request)
    /\ pc' = "send_primary"
    /\ UNCHANGED <<inbound, request, logger, log, response, primaryResult,
                   fallbackResult, sent, requestLog, serviceLog>>

\* where send_request_to_s3 returns to: main line 21 or main line 28
s3_return_pc == IF is_purge(request) THEN "done" ELSE "add_cors_headers"

\* both sends issued at once, before the primary's outcome is known
send_primary_and_fallback ==
    /\ pc = "send_primary"
    /\ sent' = sent \o << [host |-> Config.primary_host,
                           req |-> clone_without_body(request)],
                          [host |-> Config.fallback_host,
                           req |-> clone_without_body(request)] >>
    /\ pc' = "primary_wait"
    /\ UNCHANGED <<inbound, request, logger, log, response, primaryResult,
                   fallbackResult, requestLog, serviceLog>>

\* send_request_to_s3, lines 145-147: the send
send_primary ==
    /\ pc = "send_primary"
    /\ sent' = Append(sent, [host |-> Config.primary_host,
                             req |-> clone_without_body(request)])
    /\ pc' = "primary_wait"
    /\ UNCHANGED <<inbound, request, logger, log, response, primaryResult,
                   fallbackResult, requestLog, serviceLog>>

\* send_request_to_s3, lines 147-155 and 160: the outcome of the send
primary_return ==
    /\ pc = "primary_wait"
    /\ \E o \in SendOutcomes(Config.primary_host) :
        /\ primaryResult' = Some(o)
        /\ IF after_primary(o) = "fallback"
           THEN /\ serviceLog' = warn([kind |-> "status", host |-> Config.primary_host,
                                       status |-> o.status])
                /\ response' = response
                /\ pc' = "send_fallback"
           ELSE /\ serviceLog' = serviceLog
                /\ response' = Some(o)
                /\ pc' = s3_return_pc
    /\ UNCHANGED <<inbound, request, logger, log, fallbackResult, sent, requestLog>>

\* send_request_to_s3, lines 156-157: the send
send_fallback ==
    /\ pc = "send_fallback"
    /\ sent' = Append(sent, [host |-> Config.fallback_host,
                             req |-> clone_without_body(request)])
    /\ pc' = "fallback_wait"
    /\ UNCHANGED <<inbound, request, logger, log, response, primaryResult,
                   fallbackResult, requestLog, serviceLog>>

\* send_request_to_s3, lines 157-160: the outcome of the send
fallback_return ==
    /\ pc = "fallback_wait"
    /\ \E o \in SendOutcomes(Config.fallback_host) :
        /\ fallbackResult' = Some(o)
        /\ response' = Some(o)
    /\ pc' = s3_return_pc
    /\ UNCHANGED <<inbound, request, logger, log, primaryResult, sent,
                   requestLog, serviceLog>>

\* main, lines 30-32
add_cors_headers ==
    /\ pc = "add_cors_headers"
    /\ response' = IF has_origin_header(inbound)
                   THEN Some(add_cors_headers_to(response[1]))
                   ELSE response
    /\ pc' = "collect_response"
    /\ UNCHANGED <<inbound, request, logger, log, primaryResult,
                   fallbackResult, sent, requestLog, serviceLog>>

collect_response ==
    /\ pc = "collect_response"
    /\ log' = collect_response_builder(log, response[1])
    /\ pc' = "build_and_send_log"
    /\ UNCHANGED <<inbound, request, logger, response, primaryResult,
                   fallbackResult, sent, requestLog, serviceLog>>

\* build_and_send_log(log, &config)?: a record without a byte count fails
\* the invocation
build_and_send_log_or_fail ==
    /\ pc = "build_and_send_log"
    /\ requestLog' = requestLog \o log_output(log)[1]
    /\ serviceLog' = serviceLog \o log_output(log)[2]
    /\ response' = IF log.bytes \in {None, Some(None)}
                   THEN Some(Err("local")) ELSE response
    /\ pc' = "done"
    /\ UNCHANGED <<inbound, request, logger, log, primaryResult,
                   fallbackResult, sent>>

\* build_and_send_log, then main returns the response (line 37)
build_and_send_log ==
    /\ pc = "build_and_send_log"
    /\ requestLog' = requestLog \o log_output(log)[1]
    /\ serviceLog' = serviceLog \o log_output(log)[2]
    /\ pc' = "done"
    /\ UNCHANGED <<inbound, request, logger, log, response, primaryResult,
                   fallbackResult, sent>>

Next ==
    \/ main_purge_check
    \/ init_logging
    \/ collect_request
    \/ handle_request_limit
    \/ set_ttl
    \/ rewrite_urls_with_plus_character
    \/ redirect_db_dump_to_cloudfront
    \/ handle_request_forward
    \/ send_primary
    \/ primary_return
    \/ send_fallback
    \/ fallback_return
    \/ add_cors_headers
    \/ collect_response
    \/ build_and_send_log

Spec == Init /\ [][Next]_vars

----------------------------------------------------------------------------
(* Vocabulary of the properties *)

Purge == inbound.method = "PURGE"

Calls(host) == Cardinality({i \in 1..Len(sent) : sent[i].host = host})

PrimaryCalls == Calls(Config.primary_host)

FallbackCalls == Calls(Config.fallback_host)

\* send_request_to_s3 has returned and its caller has not touched the result
Selected ==
    \/ Purge /\ pc = "done"
    \/ ~Purge /\ pc = "add_cors_headers" /\ sent # <<>>

PrimaryFailed == primaryResult # None /\ ~primaryResult[1].ok

PrimaryAnswered(S) ==
    primaryResult # None /\ primaryResult[1].ok /\ primaryResult[1].status \in S

ServerErrors == {s \in OriginStatuses : s >= 500}

OtherStatuses == {s \in OriginStatuses : s < 500}

\* the outcome of the last send
LastOutcome == IF fallbackResult # None THEN fallbackResult ELSE primaryResult

SerializationWarnings ==
    Cardinality({i \in 1..Len(serviceLog) : serviceLog[i].kind = "serialize"})

AfterCors == pc \in {"collect_response", "build_and_send_log", "done"}

CorsNames ==
    {"Access-Control-Allow-Origin", "Access-Control-Allow-Methods",
     "Access-Control-Max-Age"}

Values(h, name) == {p[2] : p \in {q \in h : q[1] = name}}

PlusCount(p, n) == Cardinality({k \in 1..n : p[k] = "+"})

----------------------------------------------------------------------------
(* Origin selection *)

\* C1, as stated: when the send to the primary fails at the transport level,
\* the fallback is contacted exactly once and the fallback's result is the
\* result of origin selection.
C1_FallbackAfterTransportFailure ==
    (Selected /\ PrimaryFailed) =>
        /\ FallbackCalls = 1
        /\ fallbackResult # None
        /\ response = fallbackResult

\* C1, amended: when the send to the primary fails at the transport level,
\* the fallback is never contacted and the primary's transport error is the
\* result of origin selection.
C1_TransportFailureIsFinal ==
    PrimaryFailed =>
        /\ PrimaryCalls = 1
        /\ FallbackCalls = 0
        /\ fallbackResult = None
        /\ pc \notin {"send_fallback", "fallback_wait"}
        /\ Selected => response = primaryResult

C1_Witness == ~Purge /\ Selected /\ PrimaryFailed

\* C2: when the primary answers with a status >= 500, the fallback is
\* contacted exactly once and its outcome, a response of any status or a
\* transport error, is the result of origin selection.
C2_FallbackAfterServerError ==
    PrimaryAnswered(ServerErrors) =>
        /\ PrimaryCalls = 1
        /\ FallbackCalls <= 1
        /\ Selected =>
            /\ FallbackCalls = 1
            /\ Len(sent) = 2
            /\ fallbackResult # None
            /\ fallbackResult[1].backend = Config.fallback_host
            /\ response = fallbackResult

C2_Witness ==
    /\ Selected
    /\ PrimaryAnswered({500})
    /\ fallbackResult # None /\ fallbackResult[1].ok
    /\ fallbackResult[1].status = 503

\* C3: when the primary answers with a status < 500, origin selection
\* returns exactly that response and the fallback is never contacted.
C3_PrimaryResponseReturned ==
    PrimaryAnswered(OtherStatuses) =>
        /\ FallbackCalls = 0
        /\ fallbackResult = None
        /\ pc \notin {"send_fallback", "fallback_wait"}
        /\ Selected => response = primaryResult

C3_Witness == Selected /\ PrimaryAnswered({499}) /\ response = primaryResult

----------------------------------------------------------------------------
(* The pipeline *)

C5_RedirectByPath ==
    inbound.method \in {"GET", "HEAD"} =>
        IF ends_with(rewrite_path(inbound.path), DbDump)
        THEN /\ sent = <<>>
             /\ pc = "done" =>
                 /\ response # None /\ response[1].ok
                 /\ response[1].status = 307
                 /\ get_header(response[1].headers, "Location")
                      = Some(<<"https://", Config.cloudfront_url, "/", DbDump>>)
        ELSE pc = "done" => sent # <<>>

\* C6: a non-purge invocation that has completed has written exactly one
\* line: either the log line or the serialization warning; before
\* finalization it has written neither.
C6_OneLineOrOneWarning ==
    ~Purge =>
        /\ pc = "done" => Len(requestLog) + SerializationWarnings = 1
        /\ pc # "done" => Len(requestLog) + SerializationWarnings = 0

C6_Witness == ~Purge /\ pc = "done" /\ ~response[1].ok

\* C7: a PURGE request goes straight to send_request_to_s3 and main returns
\* that result: no method filter, no TTL, no path rewriting, no log line.
C7_PurgeForwarded ==
    Purge =>
        /\ pc \in {"main", "send_primary", "primary_wait", "send_fallback",
                   "fallback_wait", "done"}
        /\ request = inbound
        /\ \A i \in 1..Len(sent) : sent[i].req = clone_without_body(inbound)
        /\ requestLog = <<>> /\ SerializationWarnings = 0
        /\ log = LogLineV1Builder_default
        /\ response # None => response[1].backend # "local"
        /\ pc = "done" =>
            /\ PrimaryCalls = 1
            /\ sent[1].host = Config.primary_host
            /\ FallbackCalls = (IF PrimaryAnswered(ServerErrors) THEN 1 ELSE 0)
            /\ response = LastOutcome

C7_Witness ==
    /\ Purge /\ pc = "done"
    /\ contains_plus(inbound.path)
    /\ ends_with(get_url_str(inbound), DbDump)
    /\ response[1].ok

\* C8: after the CORS step of a non-purge invocation, a response to a
\* request that carried an Origin header has the three CORS headers with
\* their values; for a request without one the response is as
\* handle_request returned it.
C8_CorsHeaders ==
    (~Purge /\ AfterCors /\ response[1].ok) =>
        IF inbound.origin_header # None
        THEN /\ Values(response[1].headers, "Access-Control-Allow-Origin") = {"*"}
             /\ Values(response[1].headers, "Access-Control-Allow-Methods") = {"GET"}
             /\ Values(response[1].headers, "Access-Control-Max-Age") = {"3000"}
        ELSE IF sent # <<>>
             THEN response = LastOutcome
             ELSE \A n \in CorsNames : Values(response[1].headers, n) = {}

C8_Witness ==
    /\ ~Purge /\ pc = "done" /\ response[1].ok
    /\ inbound.origin_header # None
    /\ sent # <<>>
    /\ Values(LastOutcome[1].headers, "Access-Control-Allow-Origin")
         = {"https://example.com"}

\* C9: the log record of an invocation that ended with a response has a
\* method, a status and, when the content length is known, that length
\* as bytes; after a transport failure it has status 500 and null bytes.
C9_LogRecord ==
    (~Purge /\ pc = "done") =>
        /\ Len(requestLog) = 1
        /\ LET line == requestLog[1].line IN
           IF response[1].ok
           THEN /\ line.method # None
                /\ line.status # None
                /\ response[1].len # None => line.bytes = response[1].len
           ELSE /\ line.status = Some(500)
                /\ line.bytes = None

C9_Witness ==
    /\ ~Purge /\ pc = "done" /\ ~response[1].ok
    /\ Len(requestLog) = 1
    /\ requestLog[1].line.status = Some(500)

\* C10: the rewritten path is the inbound path with every + replaced by
\* %2B and nothing else changed; it has no +, rewriting it again changes
\* nothing, and a path without + is left as it was.
C10_PlusRewritten ==
    (inbound.method \in {"GET", "HEAD"}
        /\ pc \notin {"main", "init_logging", "collect_request",
                      "limit_http_methods", "set_ttl", "rewrite_urls"}) =>
        LET p == inbound.path
            n == request.path
        IN  /\ ~contains_plus(n)
            /\ Len(n) = Len(p) + 2 * PlusCount(p, Len(p))
            /\ \A i \in 1..Len(p) :
                LET j == i + 2 * PlusCount(p, i - 1) IN
                IF p[i] = "+"
                THEN n[j] = "%" /\ n[j + 1] = "2" /\ n[j + 2] = "B"
                ELSE n[j] = p[i]
            /\ rewrite_path(n) = n
            /\ ~contains_plus(p) => n = p
            /\ request.query = inbound.query
            /\ request.method = inbound.method

C10_Witness ==
    /\ pc = "route"
    /\ PlusCount(inbound.path, Len(inbound.path)) = 2
    /\ request.path = <<"/", "%", "2", "B", "%", "2", "B">>

----------------------------------------------------------------------------
(* Order of the origin calls *)

\* a request was sent to the host and its outcome is not known yet
PrimaryInFlight == PrimaryCalls > Len(primaryResult)

FallbackInFlight == FallbackCalls > Len(fallbackResult)

\* C11: an invocation sends at most one request to the primary and at most
\* one to the fallback; the fallback's is sent only after the primary's
\* outcome is known, never without a send to the primary before it, and
\* the two are never in flight together.
C11_SequentialOriginCalls ==
    /\ PrimaryCalls <= 1 /\ FallbackCalls <= 1
    /\ Len(sent) = PrimaryCalls + FallbackCalls
    /\ FallbackCalls = 1 =>
        /\ Len(sent) = 2
        /\ sent[1].host = Config.primary_host
        /\ sent[2].host = Config.fallback_host
        /\ primaryResult # None
    /\ ~(PrimaryInFlight /\ FallbackInFlight)
    /\ Len(primaryResult) <= PrimaryCalls
    /\ Len(fallbackResult) <= FallbackCalls

C11_Witness == FallbackInFlight /\ ~PrimaryInFlight /\ Len(sent) = 2

----------------------------------------------------------------------------
(* The result main returns *)

\* C12: build_and_send_log leaves the result as it was after handle_request
\* and the CORS step, whichever line it writes; a response stays a response.
C12_FinalizationKeepsResult ==
    [][pc = "build_and_send_log" =>
        /\ response' = response
        /\ pc' = "done"
        /\ Len(requestLog') + Len(serviceLog')
             = Len(requestLog) + Len(serviceLog) + 1]_vars

C12_Witness ==
    /\ ~Purge /\ pc = "done"
    /\ response[1].ok /\ response[1].len = None
    /\ Len(requestLog) = 1

\* the response is one the service built itself
Synthesized(r) == r.backend = "local" /\ r.status \in {401, 307}

\* C13: a response returned to the client has the status 401 or 307 of a
\* response built locally, or the status of the last origin contacted; the
\* CORS step keeps status and body, and keeps a failure as it is.
C13_StatusFromOriginOrLocal ==
    /\ [](  (pc = "done" /\ response[1].ok) =>
              \/ sent = <<>> /\ Synthesized(response[1])
              \/ /\ sent # <<>>
                 /\ LastOutcome[1].backend = sent[Len(sent)].host
                 /\ response[1].status = LastOutcome[1].status
                 /\ response[1].backend = LastOutcome[1].backend )
    /\ [][pc = "add_cors_headers" =>
            /\ response'[1].ok = response[1].ok
            /\ response'[1].status = response[1].status
            /\ response'[1].body = response[1].body
            /\ ~response[1].ok => response' = response]_vars

C13_Witness ==
    /\ ~Purge /\ pc = "done" /\ response[1].ok
    /\ inbound.origin_header # None
    /\ FallbackCalls = 1
    /\ response[1].status = 503

----------------------------------------------------------------------------
(* Warnings, cache lifetime and the phases of the log *)

StatusWarnings(status) ==
    {i \in 1..Len(serviceLog) :
        /\ serviceLog[i].kind = "status"
        /\ serviceLog[i].host = Config.primary_host
        /\ serviceLog[i].status = status}

\* C14, as stated: whenever a request has been sent to the fallback, the
\* service log holds a warning with the status the primary answered with.
C14_WarningBeforeFallback ==
    FallbackCalls >= 1 =>
        /\ primaryResult # None
        /\ StatusWarnings(primaryResult[1].status) # {}

\* C15: every request a non-purge invocation sends to an origin carries the
\* configured static TTL and the rewritten path; the TTL is on the request
\* when the db-dump test is made and before any send.
C15_TtlOnEverySend ==
    ~Purge =>
        /\ \A i \in 1..Len(sent) :
            /\ sent[i].req.ttl = Some(Config.static_ttl)
            /\ sent[i].req.path = rewrite_path(inbound.path)
            /\ ~contains_plus(sent[i].req.path)
        /\ pc \in {"route", "send_primary", "primary_wait", "send_fallback",
                   "fallback_wait"}
             => request.ttl = Some(Config.static_ttl)
        /\ request.ttl = None => sent = <<>>

C15_Witness ==
    /\ ~Purge /\ Len(sent) = 2
    /\ contains_plus(inbound.path)
    /\ sent[2].req.ttl = Some(Config.static_ttl)

RequestPhaseDone ==
    /\ log.date_time # None /\ log.url # None
    /\ log.ip # None /\ log.method # None

ResponsePhaseDone == log.status # None

Emitted == Len(requestLog) + SerializationWarnings

\* C16: in a non-purge invocation the request-phase fields are captured
\* before the method filter and any send, the response-phase fields after
\* origin selection and the CORS step, and the record is emitted once,
\* after both phases, before main returns.
C16_LogPhasesOrdered ==
    ~Purge =>
        /\ pc \notin {"main", "init_logging", "collect_request"} => RequestPhaseDone
        /\ (sent # <<>> \/ response # None \/ request # inbound) => RequestPhaseDone
        /\ ResponsePhaseDone <=> pc \in {"build_and_send_log", "done"}
        /\ ResponsePhaseDone => (RequestPhaseDone /\ response # None)
        /\ log.bytes # None => ResponsePhaseDone
        /\ Emitted = (IF pc = "done" THEN 1 ELSE 0)
        /\ Emitted = 1 => (RequestPhaseDone /\ ResponsePhaseDone)

C16_Witness ==
    /\ ~Purge /\ pc = "done" /\ Emitted = 1
    /\ FallbackCalls = 1 /\ inbound.origin_header # None

\* C17: a request whose method is not GET, HEAD or PURGE and whose URL ends
\* with db-dump.tar.gz gets the 401 and never the 307; its path is not
\* rewritten either.
C17_FilterBeforeRedirect ==
    (inbound.method \notin {"GET", "HEAD", "PURGE"} /\ is_db_dump(inbound)) =>
        /\ request = inbound
        /\ response # None =>
            /\ response[1].status = 401
            /\ get_header(response[1].headers, "Location") = None
        /\ pc = "done" => response # None

C17_Witness ==
    /\ inbound.method = "POST" /\ is_db_dump(inbound)
    /\ contains_plus(inbound.path)
    /\ pc = "done" /\ response[1].status = 401

\* C18: when a non-purge invocation ends with a response, the status in
\* the log record is the status of that response.
C18_LoggedStatusIsReturnedStatus ==
    (~Purge /\ pc = "done" /\ response[1].ok) =>
        /\ log.status = Some(Some(response[1].status))
        /\ Len(requestLog) = 1
        /\ requestLog[1].line.status = Some(response[1].status)

C18_Witness ==
    /\ ~Purge /\ pc = "done" /\ response[1].ok
    /\ response[1].backend = Config.fallback_host
    /\ requestLog[1].line.status = Some(499)

\* C19: the url and method of the log are those of the request as
\* received; a path with + is logged with + and sent to the origin with
\* %2B.
C19_LoggedUrlIsInbound ==
    (~Purge /\ pc \notin {"main", "init_logging", "collect_request"}) =>
        /\ log.url = Some(get_url_str(inbound))
        /\ log.method = Some(Some(inbound.method))
        /\ \A i \in 1..Len(requestLog) :
            /\ requestLog[i].line.url = get_url_str(inbound)
            /\ requestLog[i].line.method = Some(inbound.method)
        /\ \A i \in 1..Len(sent) : ~contains_plus(sent[i].req.path)

C19_Witness ==
    /\ ~Purge /\ pc = "done"
    /\ contains_plus(inbound.path)
    /\ sent # <<>> /\ sent[1].req.path # inbound.path
    /\ Len(requestLog) = 1
    /\ contains_plus(requestLog[1].line.url)

\* C20: when build_and_send_log is called the builder has the timestamp,
\* the URL, the client address, the method and the status (the response's,
\* or 500 after a transport failure); only bytes can be unset, and it is
\* unset exactly after a transport failure.
C20_BuilderCompleteAtFinalization ==
    pc = "build_and_send_log" =>
        /\ log.date_time = Some(Now)
        /\ log.url # None /\ log.ip # None /\ log.method # None
        /\ log.status = Some(Some(IF response[1].ok THEN response[1].status ELSE 500))
        /\ log.bytes = None <=> ~response[1].ok

C20_Witness == pc = "build_and_send_log" /\ log.bytes = None /\ log.status = Some(Some(500))

====
